---- MODULE Spec2Model ----
(***************************************************************************)
(* A model of VideoLoader (video_loader.py): the caption merge of          *)
(* _process_subtitles over a stream of WebVTT captions, and the per-item   *)
(* control flow of extract over a batch of Documents; the argument         *)
(* dictionaries of a VideoLoader over a sequence of extract calls; and the *)
(* frame decoder _convert_video_uri_to_frames.                             *)
(*                                                                         *)
(* Strings are sequences of one-character strings, so that str.split,      *)
(* str.strip, str.join, startswith and endswith are computed as Python     *)
(* computes them.                                                          *)
(***************************************************************************)
EXTENDS Integers, Sequences, FiniteSets, TLC

VARIABLES
    \* ---- _process_subtitles ----
    cues,                  \* the captions webvtt.read has yielded so far
    beg,                   \* local beg
    is_last_cap_complete,  \* local is_last_cap_complete
    subtitles,             \* local subtitles
    prev_parts,            \* local prev_parts
    mpc,                   \* "reading" (in the for loop) or "returned"
    result,                \* the value _process_subtitles returned
    hist,                  \* history: the locals after each caption
    \* ---- extract ----
    docs,                  \* the DocumentArray: id, source and chunks of each Document
    modality,              \* self._modality
    di,                    \* the position of the for loop of line 102 in docs
    pc,                    \* where extract is: "loop", "fetch", "image", "audio", "text",
                           \* "done" (returned), "raised" (an exception left extract)
    log,                   \* what self.logger has been given
    tmpdirs,               \* the Documents whose TemporaryDirectory exists
    created,               \* history: how many temporary directories each Document got
    calls,                 \* history: the <<Document, modality>> converters called
    \* ---- the VideoLoader and its extract calls ----
    inst,                  \* self._ffmpeg_video_args, _ffmpeg_audio_args,
                           \* _ffmpeg_subtitle_args, _librosa_load_args
    frame_fps,             \* self._frame_fps: <<n>>, or <<>> when the attribute is not set
    inst0,                 \* history: inst when __init__ returned
    call_hist,             \* history: parameters, arguments used and outcome of each call
    \* ---- _convert_video_uri_to_frames ----
    frame_call,            \* w, h, the bytes ffmpeg wrote, whether ffmpeg succeeded
    video_frames,          \* local video_frames
    fpc                    \* "idle", "call", "returned", "raised"

mergeVars == <<cues, beg, is_last_cap_complete, subtitles, prev_parts, mpc, result, hist>>

extractVars == <<docs, modality, di, pc, log, tmpdirs, created, calls>>

instVars == <<inst, frame_fps, inst0, call_hist>>

frameVars == <<frame_call, video_frames, fpc>>

vars == <<mergeVars, extractVars, instVars, frameVars>>

(***************************************************************************)
(* Bounds                                                                  *)
(***************************************************************************)
MaxCues == 3

MaxDocs == 2

\* the number of frames ffmpeg gives for a video it can decode
NumFrames == 2

\* extract calls on one VideoLoader
MaxCalls == 2

\* width and height of a frame, and the bytes ffmpeg writes
MaxDim == 2

MaxBytes == 12

\* program constants
DEFAULT_FPS == 1

DEFAULT_AUDIO_BIT_RATE == 160000

DEFAULT_AUDIO_CHANNELS == 2

DEFAULT_AUDIO_SAMPLING_RATE == 44100

(***************************************************************************)
(* Python strings                                                          *)
(***************************************************************************)
None == "None"

NL == "\n"

\* the characters str.strip() removes
Whitespace == {" ", "\t", "\n", "\r"}

\* s.split(sep) for a one-character separator
RECURSIVE Split(_, _)
Split(s, sep) ==
    IF \A i \in 1..Len(s) : s[i] # sep
    THEN <<s>>
    ELSE LET k == CHOOSE i \in 1..Len(s) : s[i] = sep /\ \A j \in 1..(i - 1) : s[j] # sep
         IN  <<SubSeq(s, 1, k - 1)>> \o Split(SubSeq(s, k + 1, Len(s)), sep)

\* len(x.strip()) > 0
NonBlank(x) == \E i \in 1..Len(x) : x[i] \notin Whitespace

\* sep.join(parts)
RECURSIVE Join(_, _)
Join(parts, sep) ==
    IF parts = <<>> THEN <<>>
    ELSE IF Len(parts) = 1 THEN parts[1]
    ELSE parts[1] \o sep \o Join(Tail(parts), sep)

StartsWith(s, p) == Len(s) >= Len(p) /\ SubSeq(s, 1, Len(p)) = p

EndsWith(s, p) == Len(s) >= Len(p) /\ SubSeq(s, Len(s) - Len(p) + 1, Len(s)) = p

\* x in parts
In(x, parts) == \E i \in 1..Len(parts) : parts[i] = x

Min(S) == CHOOSE x \in S : \A y \in S : x <= y

Max(S) == CHOOSE x \in S : \A y \in S : x >= y

DigitChars == <<"0", "1", "2", "3", "4", "5", "6", "7", "8", "9">>

Digits == {DigitChars[i] : i \in 1..Len(DigitChars)}

RECURSIVE ToInt(_)
\* int(s) of a string of decimal digits
ToInt(s) ==
    IF s = <<>> THEN 0
    ELSE ToInt(SubSeq(s, 1, Len(s) - 1)) * Len(DigitChars)
         + (CHOOSE n \in 0..(Len(DigitChars) - 1) : DigitChars[n + 1] = s[Len(s)])

RECURSIVE ToStr(_)
\* str(n) of a natural number
ToStr(n) ==
    IF n < Len(DigitChars) THEN <<DigitChars[n + 1]>>
    ELSE ToStr(n \div Len(DigitChars)) \o <<DigitChars[(n % Len(DigitChars)) + 1]>>

(***************************************************************************)
(* The VideoLoader: a dictionary is a function from its keys               *)
(***************************************************************************)
EmptyDict == <<>>

\* d.setdefault(k, v)
SetDefault(d, k, v) == IF k \in DOMAIN d THEN d ELSE d @@ (k :> v)

\* d.update(o)
Update(d, o) == o @@ d

\* d.get(k, {})
Get(d, k) == IF k \in DOMAIN d THEN d[k] ELSE EmptyDict

DEFAULT_SUBTITLE_MAP == <<"0", ":", "s", ":", "0">>

\* f'fps={n}'
Fps(digits) == <<"f", "p", "s", "=">> \o digits

\* re.findall('.*fps=(\d+).*', vf): the leading .* is greedy, so the group
\* is the run of digits after the last "fps=" that a digit follows
FindFps(vf) ==
    LET P == {p \in 1..(Len(vf) - 4) :
                 SubSeq(vf, p, p + 3) = Fps(<<>>) /\ vf[p + 4] \in Digits}
        b == Max(P) + 4
        e == Max({q \in b..Len(vf) : \A r \in b..q : vf[r] \in Digits})
    IN  IF P = {} THEN <<>> ELSE <<SubSeq(vf, b, e)>>

\* lines 66-69: self._frame_fps is assigned only when the pattern matches
FrameFpsOf(vf) == IF Len(FindFps(vf)) > 0 THEN <<ToInt(FindFps(vf)[1])>> ELSE <<>>

\* __init__: each argument is a dictionary, EmptyDict when it is not given
Construct(a) ==
    LET video == SetDefault(SetDefault(SetDefault(SetDefault(SetDefault(
                     a.ffmpeg_video_args, "format", "rawvideo"), "pix_fmt", "rgb24"),
                     "frame_pts", TRUE), "vsync", 0), "vf", Fps(ToStr(DEFAULT_FPS)))
        audio == SetDefault(SetDefault(SetDefault(SetDefault(
                     a.ffmpeg_audio_args, "format", "wav"), "ab", DEFAULT_AUDIO_BIT_RATE),
                     "ac", DEFAULT_AUDIO_CHANNELS), "ar", DEFAULT_AUDIO_SAMPLING_RATE)
        subtitle == SetDefault(a.ffmpeg_subtitle_args, "map", DEFAULT_SUBTITLE_MAP)
        librosa == SetDefault(SetDefault(a.librosa_load_args, "sr", audio["ar"]),
                              "mono", audio["ac"] > 1)
    IN  [args      |-> [ffmpeg_video_args    |-> video,
                        ffmpeg_audio_args    |-> audio,
                        ffmpeg_subtitle_args |-> subtitle,
                        librosa_load_args    |-> librosa],
         frame_fps |-> FrameFpsOf(video["vf"])]

\* VideoLoader()
NoCtorArgs ==
    [ffmpeg_video_args |-> EmptyDict, ffmpeg_audio_args |-> EmptyDict,
     ffmpeg_subtitle_args |-> EmptyDict, librosa_load_args |-> EmptyDict]

\* a VideoLoader made with the default arguments, on which no call is modelled
DefaultInstance ==
    /\ inst = Construct(NoCtorArgs).args
    /\ frame_fps = Construct(NoCtorArgs).frame_fps
    /\ inst0 = Construct(NoCtorArgs).args
    /\ call_hist = <<>>

\* no call of _convert_video_uri_to_frames is modelled
NoFrameCall ==
    /\ frame_call = [w |-> 1, h |-> 1, out |-> <<>>, ok |-> TRUE]
    /\ video_frames = <<>>
    /\ fpc = "idle"

(***************************************************************************)
(* The captions of a WebVTT file: raw texts of one or two lines over the   *)
(* lines "a", "b" and " ", two texts whose whitespace-only line is two     *)
(* spaces, and one three-line text.  Captions are contiguous in time: each *)
(* starts where the previous one ended and lasts 0 or 1 second.            *)
(***************************************************************************)
Lines == {<<"a">>, <<"b">>, <<" ">>}

RawTexts ==
    Lines
    \cup {Join(<<l1, l2>>, <<NL>>) : l1 \in Lines, l2 \in Lines}
    \cup {<<"a", NL, " ", " ">>, <<" ", " ", NL, "a">>, <<"a", NL, "b", NL, " ">>}

Durations == {0, 1}

Clock == IF cues = <<>> THEN 0 ELSE cues[Len(cues)].end_in_seconds

(***************************************************************************)
(* _process_subtitles                                                      *)
(***************************************************************************)
\* the list comprehension of lines 242-245
CurParts(caption) == SelectSeq(Split(caption.text, NL), NonBlank)

\* mutant: skips a one-line caption whenever there are previous lines
SkippedAnyPrev(st, caption) ==
    LET cur_parts == CurParts(caption)
    IN  Len(cur_parts) = 1 /\ st.prev_parts # <<>>

\* mutant: tests len(cur_parts) > 1, so that no one-line caption is skipped
SkippedNever(st, caption) ==
    LET cur_parts == CurParts(caption)
    IN  Len(cur_parts) > 1 /\ Len(cur_parts) = 1 /\ In(cur_parts[1], st.prev_parts)

\* lines 247-249: the caption is skipped by the continue
Skipped(st, caption) ==
    LET cur_parts == CurParts(caption)
    IN  Len(cur_parts) = 1 /\ In(cur_parts[1], st.prev_parts)

\* mutant: the text of an entry that follows incomplete captions starts with
\* their lines
FilteredTextAccumulates(st, caption) ==
    LET cur_parts == CurParts(caption)
    IN  IF Len(cur_parts) > 1 /\ In(cur_parts[1], st.prev_parts) /\ st.is_last_cap_complete
        THEN Join(Tail(cur_parts), <<" ">>)
        ELSE IF st.is_last_cap_complete
        THEN Join(cur_parts, <<" ">>)
        ELSE Join(st.prev_parts \o cur_parts, <<" ">>)

\* mutant: trims the repeated first line after an incomplete caption too
FilteredTextAlwaysTrims(st, caption) ==
    LET cur_parts == CurParts(caption)
    IN  IF Len(cur_parts) > 1 /\ In(cur_parts[1], st.prev_parts)
        THEN Join(Tail(cur_parts), <<" ">>)
        ELSE Join(cur_parts, <<" ">>)

\* lines 246, 250-252
FilteredText(st, caption) ==
    LET cur_parts == CurParts(caption)
    IN  IF Len(cur_parts) > 1 /\ In(cur_parts[1], st.prev_parts) /\ st.is_last_cap_complete
        THEN Join(Tail(cur_parts), <<" ">>)
        ELSE Join(cur_parts, <<" ">>)

\* mutant: any whitespace-only first or last line makes the caption incomplete
IsCurCompleteAnyWhitespace(caption) ==
    LET lines == Split(caption.text, NL)
    IN  ~(Len(lines) > 1 /\ (~NonBlank(lines[1]) \/ ~NonBlank(lines[Len(lines)])))

\* lines 253, 256-257
IsCurComplete(caption) ==
    ~(StartsWith(caption.text, <<" ", NL>>) \/ EndsWith(caption.text, <<NL, " ">>))

\* mutant: beg is set at every caption
NewBegAlways(st, caption) == caption.start_in_seconds

\* lines 254-255
NewBeg(st, caption) ==
    IF st.is_last_cap_complete THEN caption.start_in_seconds ELSE st.beg

\* mutant: a skipped caption still becomes prev_parts
ProcessCaptionSkipUpdatesPrev(st, caption) ==
    IF Skipped(st, caption)
    THEN [st EXCEPT !.prev_parts = CurParts(caption)]
    ELSE [beg                  |-> NewBeg(st, caption),
          is_last_cap_complete |-> IsCurComplete(caption),
          subtitles            |->
              IF IsCurComplete(caption)
              THEN Append(st.subtitles,
                          <<NewBeg(st, caption), caption.end_in_seconds,
                            FilteredText(st, caption)>>)
              ELSE st.subtitles,
          prev_parts           |-> CurParts(caption)]

\* mutant: appends (end, beg, text)
ProcessCaptionSwapped(st, caption) ==
    IF Skipped(st, caption)
    THEN st
    ELSE [beg                  |-> NewBeg(st, caption),
          is_last_cap_complete |-> IsCurComplete(caption),
          subtitles            |->
              IF IsCurComplete(caption)
              THEN Append(st.subtitles,
                          <<caption.end_in_seconds, NewBeg(st, caption),
                            FilteredText(st, caption)>>)
              ELSE st.subtitles,
          prev_parts           |-> CurParts(caption)]

\* one iteration of the for loop, lines 241-261
ProcessCaption(st, caption) ==
    IF Skipped(st, caption)
    THEN st
    ELSE [beg                  |-> NewBeg(st, caption),
          is_last_cap_complete |-> IsCurComplete(caption),
          subtitles            |->
              IF IsCurComplete(caption)
              THEN Append(st.subtitles,
                          <<NewBeg(st, caption), caption.end_in_seconds,
                            FilteredText(st, caption)>>)
              ELSE st.subtitles,
          prev_parts           |-> CurParts(caption)]

\* lines 237-240
InitialLocals ==
    [beg |-> None, is_last_cap_complete |-> TRUE, subtitles |-> <<>>, prev_parts |-> <<>>]

\* mutant: flushes the entry in progress at the end of the stream
ReturnedFlushing(st) ==
    IF st.is_last_cap_complete
    THEN st.subtitles
    ELSE Append(st.subtitles, <<st.beg, st.beg, Join(st.prev_parts, <<" ">>)>>)

\* line 262
Returned(st) == st.subtitles

\* the whole of _process_subtitles on a list of captions
RECURSIVE MergeLoop(_, _)
MergeLoop(st, captions) ==
    IF captions = <<>> THEN st
    ELSE MergeLoop(ProcessCaption(st, Head(captions)), Tail(captions))

ProcessSubtitles(captions) == Returned(MergeLoop(InitialLocals, captions))

Locals ==
    [beg |-> beg, is_last_cap_complete |-> is_last_cap_complete,
     subtitles |-> subtitles, prev_parts |-> prev_parts]

Snapshot(st, skipped) ==
    [beg |-> st.beg, is_last_cap_complete |-> st.is_last_cap_complete,
     prev_parts |-> st.prev_parts, n |-> Len(st.subtitles), skipped |-> skipped]

MergeInit ==
    /\ cues = <<>>
    /\ beg = InitialLocals.beg
    /\ is_last_cap_complete = InitialLocals.is_last_cap_complete
    /\ subtitles = InitialLocals.subtitles
    /\ prev_parts = InitialLocals.prev_parts
    /\ mpc = "reading"
    /\ result = <<>>
    /\ hist = <<Snapshot(InitialLocals, FALSE)>>
    /\ docs = <<>>
    /\ modality = {}
    /\ di = 1
    /\ pc = "idle"
    /\ log = <<>>
    /\ tmpdirs = {}
    /\ created = <<>>
    /\ calls = {}
    /\ DefaultInstance
    /\ NoFrameCall

\* the for loop takes the next caption of the file
ReadCaption ==
    /\ mpc = "reading"
    /\ Len(cues) < MaxCues
    /\ \E text \in RawTexts, d \in Durations :
         LET caption == [start_in_seconds |-> Clock, end_in_seconds |-> Clock + d,
                         text |-> text]
             st == ProcessCaption(Locals, caption)
         IN  /\ cues' = Append(cues, caption)
             /\ beg' = st.beg
             /\ is_last_cap_complete' = st.is_last_cap_complete
             /\ subtitles' = st.subtitles
             /\ prev_parts' = st.prev_parts
             /\ hist' = Append(hist, Snapshot(st, Skipped(Locals, caption)))
    /\ UNCHANGED <<mpc, result>>
    /\ UNCHANGED extractVars
    /\ UNCHANGED <<instVars, frameVars>>

\* the file has no more captions: line 262
EndOfStream ==
    /\ mpc = "reading"
    /\ mpc' = "returned"
    /\ result' = Returned(Locals)
    /\ UNCHANGED <<cues, beg, is_last_cap_complete, subtitles, prev_parts, hist>>
    /\ UNCHANGED extractVars
    /\ UNCHANGED <<instVars, frameVars>>

MergeNext == ReadCaption \/ EndOfStream

MergeSpec == MergeInit /\ [][MergeNext]_vars

(***************************************************************************)
(* extract                                                                 *)
(*                                                                         *)
(* A source is what a Document's uri leads to: what urlopen does for a     *)
(* data URI and what ffmpeg and librosa do with the video.  The same       *)
(* source behaves the same wherever it stands in a batch.                  *)
(*   frames: "ok", "ffmpeg.Error" (caught at line 182) or "ValueError"     *)
(*           (reshape of line 181 fails; not caught)                       *)
(*   audio:  "ok", "ffmpeg.Error" (line 198) or "LibrosaError" (line 200)  *)
(*   subs:   "ok" or "ffmpeg.Error" (line 215)                             *)
(***************************************************************************)
Modalities == {"image", "audio", "text"}

Sources ==
    [uri : {"file"}, fetch : {"ok"}, frames : {"ok", "ffmpeg.Error", "ValueError"},
     audio : {"ok", "ffmpeg.Error", "LibrosaError"}, subs : {"ok", "ffmpeg.Error"}]
    \cup [uri : {""}, fetch : {"ok"}, frames : {"ok"}, audio : {"ok"}, subs : {"ok"}]
    \cup [uri : {"data"}, fetch : {"ok", "URLError"}, frames : {"ok"}, audio : {"ok"},
          subs : {"ok"}]

\* the captions of the subtitle track ffmpeg writes to subs.vtt
SubtitleTrack ==
    <<[start_in_seconds |-> 0, end_in_seconds |-> 1, text |-> <<" ", NL, "a">>],
      [start_in_seconds |-> 1, end_in_seconds |-> 1, text |-> <<"a", NL, " ">>],
      [start_in_seconds |-> 1, end_in_seconds |-> 2, text |-> <<"a", NL, "b">>],
      [start_in_seconds |-> 2, end_in_seconds |-> 3, text |-> <<"b">>],
      [start_in_seconds |-> 3, end_in_seconds |-> 4, text |-> <<"c", NL, "d">>]>>

Batches == UNION {[1..n -> Sources] : n \in 0..MaxDocs}

\* self._frame_fps as __init__ sets it from the default vf, lines 66-69
FrameFps == frame_fps[1]

\* idx / self._frame_fps, as a fraction
Timestamp(idx) == <<idx, FrameFps>>

LogEntry(level, msg, doc_id, uri) ==
    [level |-> level, msg |-> msg, doc_id |-> doc_id, uri |-> uri]

\* mutant: no test of the uri
HasNoUriNever(doc) == FALSE

\* line 105
HasNoUri(doc) == doc.src.uri = ""

\* _is_datauri(doc.uri), line 112
IsDataUri(doc) == doc.src.uri = "data"

\* mutant: the audio block tests for 'image'
EnabledAudioTestsImage(m) ==
    IF m = "audio" THEN "image" \in modality ELSE m \in modality

\* lines 117, 133, 150
Enabled(m) == m \in modality

\* mutant: enumerate starts at 1
FrameChunkFromOne(src, idx) ==
    [modality |-> "image", content |-> <<"frame", idx>>, location |-> idx + 1,
     tags |-> [timestamp |-> Timestamp(idx + 1)]]

\* lines 126-129: the chunk of the frame at position idx (from 0)
FrameChunk(src, idx) ==
    [modality |-> "image", content |-> <<"frame", idx>>, location |-> idx,
     tags |-> [timestamp |-> Timestamp(idx)]]

\* lines 124-130, for the frames _convert_video_uri_to_frames returned
FrameChunks(src) ==
    IF src.frames = "ok"
    THEN [k \in 1..NumFrames |-> FrameChunk(src, k - 1)]
    ELSE <<>>

\* line 125
FrameLogs(src) ==
    IF src.frames = "ok"
    THEN [k \in 1..NumFrames |-> LogEntry("debug", "frame", <<>>, <<>>)]
    ELSE <<>>

\* lines 145-146
AudioChunk(src) ==
    [modality |-> "audio", content |-> "waveform", location |-> None,
     tags |-> [sample_rate |-> "sr"]]

\* _convert_video_uri_to_subtitle, lines 205-220
Subtitles(src) == IF src.subs = "ok" THEN ProcessSubtitles(SubtitleTrack) ELSE <<>>

\* lines 158-163
TextChunks(src) ==
    [k \in 1..Len(Subtitles(src)) |->
        [modality |-> "text", content |-> Subtitles(src)[k][3], location |-> k - 1,
         tags |-> [beg_in_seconds |-> Subtitles(src)[k][1],
                   end_in_seconds |-> Subtitles(src)[k][2]]]]

AddChunks(chunks) ==
    [docs EXCEPT ![di].chunks = @ \o chunks]

\* mutant: the directory of an item left by continue is kept
ExitTmpDirKeptOnContinue(dirs, j, exit) == IF exit = "continue" THEN dirs ELSE dirs \ {j}

\* line 109: the with block removes the directory of item j however the block
\* is left (its end, the continue of line 144, an exception)
ExitTmpDir(dirs, j, exit) == dirs \ {j}

ExtractInit ==
    /\ cues = <<>>
    /\ beg = InitialLocals.beg
    /\ is_last_cap_complete = InitialLocals.is_last_cap_complete
    /\ subtitles = InitialLocals.subtitles
    /\ prev_parts = InitialLocals.prev_parts
    /\ mpc = "idle"
    /\ result = <<>>
    /\ hist = <<Snapshot(InitialLocals, FALSE)>>
    /\ \E batch \in Batches :
         /\ docs = [j \in DOMAIN batch |-> [id |-> j, src |-> batch[j], chunks |-> <<>>]]
         /\ created = [j \in DOMAIN batch |-> 0]
    /\ modality \in SUBSET Modalities
    /\ di = 1
    /\ pc = "loop"
    /\ log = <<>>
    /\ tmpdirs = {}
    /\ calls = {}
    /\ DefaultInstance
    /\ NoFrameCall

\* the for loop takes the next Document: lines 102-109
NextDoc ==
    /\ pc = "loop"
    /\ di <= Len(docs)
    /\ IF HasNoUri(docs[di])
       THEN /\ log' = log \o <<LogEntry("info", "received", <<docs[di].id>>, <<>>),
                               LogEntry("error", "No uri passed for the Document",
                                        <<docs[di].id>>, <<>>)>>
            /\ di' = di + 1
            /\ UNCHANGED <<pc, tmpdirs, created>>
       ELSE /\ log' = Append(log, LogEntry("info", "received", <<docs[di].id>>, <<>>))
            /\ tmpdirs' = tmpdirs \cup {di}
            /\ created' = [created EXCEPT ![di] = @ + 1]
            /\ pc' = "fetch"
            /\ UNCHANGED di
    /\ UNCHANGED <<docs, modality, calls>>
    /\ UNCHANGED mergeVars
    /\ UNCHANGED <<instVars, frameVars>>

\* the for loop is exhausted: extract returns
Return ==
    /\ pc = "loop"
    /\ di > Len(docs)
    /\ pc' = "done"
    /\ UNCHANGED <<docs, modality, di, log, tmpdirs, created, calls>>
    /\ UNCHANGED mergeVars
    /\ UNCHANGED <<instVars, frameVars>>

\* lines 110-114 and _save_uri_to_tmp_file: an exception of urlopen leaves
\* the with block and extract
ResolveSource ==
    /\ pc = "fetch"
    /\ IF IsDataUri(docs[di]) /\ docs[di].src.fetch # "ok"
       THEN /\ tmpdirs' = ExitTmpDir(tmpdirs, di, "exception")
            /\ pc' = "raised"
       ELSE /\ pc' = "image"
            /\ UNCHANGED tmpdirs
    /\ UNCHANGED <<docs, modality, di, log, created, calls>>
    /\ UNCHANGED mergeVars
    /\ UNCHANGED <<instVars, frameVars>>

\* lines 116-130 and _convert_video_uri_to_frames
ExtractFrames ==
    /\ pc = "image"
    /\ LET src == docs[di].src
       IN  IF ~Enabled("image")
           THEN /\ pc' = "audio"
                /\ UNCHANGED <<docs, log, tmpdirs, calls>>
           ELSE /\ calls' = calls \cup {<<di, "image">>}
                /\ CASE src.frames = "ok" ->
                          /\ docs' = AddChunks(FrameChunks(src))
                          /\ log' = log \o FrameLogs(src)
                          /\ pc' = "audio"
                          /\ UNCHANGED tmpdirs
                     [] src.frames = "ffmpeg.Error" ->
                          /\ log' = Append(log, LogEntry("error", "Frame extraction failed",
                                                         <<>>, <<src.uri>>))
                          /\ docs' = AddChunks(FrameChunks(src))
                          /\ pc' = "audio"
                          /\ UNCHANGED tmpdirs
                     [] OTHER ->
                          /\ tmpdirs' = ExitTmpDir(tmpdirs, di, "exception")
                          /\ pc' = "raised"
                          /\ UNCHANGED <<docs, log>>
    /\ UNCHANGED <<modality, di, created>>
    /\ UNCHANGED mergeVars
    /\ UNCHANGED <<instVars, frameVars>>

\* lines 132-147 and _convert_video_uri_to_audio: after a failure audio is
\* None and the continue of line 144 goes to the next Document
ExtractAudio ==
    /\ pc = "audio"
    /\ LET src == docs[di].src
       IN  IF ~Enabled("audio")
           THEN /\ pc' = "text"
                /\ UNCHANGED <<docs, di, log, tmpdirs, calls>>
           ELSE /\ calls' = calls \cup {<<di, "audio">>}
                /\ IF src.audio = "ok"
                   THEN /\ docs' = AddChunks(<<AudioChunk(src)>>)
                        /\ pc' = "text"
                        /\ UNCHANGED <<di, log, tmpdirs>>
                   ELSE /\ log' = Append(log,
                               LogEntry("error",
                                        IF src.audio = "ffmpeg.Error"
                                        THEN "Audio extraction failed with ffmpeg"
                                        ELSE "Array conversion failed with librosa",
                                        <<>>, <<src.uri>>))
                        /\ tmpdirs' = ExitTmpDir(tmpdirs, di, "continue")
                        /\ di' = di + 1
                        /\ pc' = "loop"
                        /\ UNCHANGED docs
    /\ UNCHANGED <<modality, created>>
    /\ UNCHANGED mergeVars
    /\ UNCHANGED <<instVars, frameVars>>

\* lines 149-163 and _convert_video_uri_to_subtitle; then the with block
\* ends and the for loop goes on
ExtractSubtitles ==
    /\ pc = "text"
    /\ LET src == docs[di].src
       IN  IF ~Enabled("text")
           THEN UNCHANGED <<docs, log, calls>>
           ELSE /\ calls' = calls \cup {<<di, "text">>}
                /\ docs' = AddChunks(TextChunks(src))
                /\ log' = IF src.subs = "ok" THEN log
                          ELSE Append(log, LogEntry("error",
                                                    "Subtitle extraction failed with ffmpeg",
                                                    <<>>, <<>>))
    /\ tmpdirs' = ExitTmpDir(tmpdirs, di, "end")
    /\ di' = di + 1
    /\ pc' = "loop"
    /\ UNCHANGED <<modality, created>>
    /\ UNCHANGED mergeVars
    /\ UNCHANGED <<instVars, frameVars>>

ExtractNext ==
    \/ NextDoc
    \/ Return
    \/ ResolveSource
    \/ ExtractFrames
    \/ ExtractAudio
    \/ ExtractSubtitles

ExtractSpec == ExtractInit /\ [][ExtractNext]_vars

(***************************************************************************)
(* _convert_video_uri_to_frames                                            *)
(***************************************************************************)
\* the bytes ffmpeg writes: byte i has the value i, so that the place of
\* every byte in the frames can be told
Buffer(n) == [i \in 1..n |-> i % 256]

\* mutant: bytes after the last whole frame are dropped
ReshapeTruncating(out, h, w) ==
    [raised |-> FALSE,
     frames |-> [n \in 1..(Len(out) \div (h * w * 3)) |->
                    [r \in 1..h |-> [c \in 1..w |-> [ch \in 1..3 |->
                        out[(((n - 1) * h + (r - 1)) * w + (c - 1)) * 3 + ch]]]]]]

\* line 181: np.frombuffer(out, np.uint8).reshape([-1, h, w, 3]) raises
\* ValueError when the size of out is not a multiple of h * w * 3
Reshape(out, h, w) ==
    IF Len(out) % (h * w * 3) # 0
    THEN [raised |-> TRUE, frames |-> <<>>]
    ELSE [raised |-> FALSE,
          frames |-> [n \in 1..(Len(out) \div (h * w * 3)) |->
                         [r \in 1..h |-> [c \in 1..w |-> [ch \in 1..3 |->
                             out[(((n - 1) * h + (r - 1)) * w + (c - 1)) * 3 + ch]]]]]]

FramesInit ==
    /\ cues = <<>>
    /\ beg = InitialLocals.beg
    /\ is_last_cap_complete = InitialLocals.is_last_cap_complete
    /\ subtitles = InitialLocals.subtitles
    /\ prev_parts = InitialLocals.prev_parts
    /\ mpc = "idle"
    /\ result = <<>>
    /\ hist = <<Snapshot(InitialLocals, FALSE)>>
    /\ docs = <<>>
    /\ modality = {}
    /\ di = 1
    /\ pc = "idle"
    /\ log = <<>>
    /\ tmpdirs = {}
    /\ created = <<>>
    /\ calls = {}
    /\ DefaultInstance
    /\ \E w \in 1..MaxDim, h \in 1..MaxDim, n \in 0..MaxBytes, ok \in BOOLEAN :
           frame_call = [w |-> w, h |-> h, out |-> Buffer(n), ok |-> ok]
    /\ video_frames = <<>>
    /\ fpc = "call"

\* lines 165-185: ffmpeg.Error is caught and logged, the ValueError of
\* reshape is not caught
ConvertFrames ==
    /\ fpc = "call"
    /\ IF ~frame_call.ok
       THEN /\ log' = Append(log, LogEntry("error", "Frame extraction failed",
                                           <<>>, <<"file">>))
            /\ fpc' = "returned"
            /\ UNCHANGED video_frames
       ELSE LET r == Reshape(frame_call.out, frame_call.h, frame_call.w)
            IN  /\ fpc' = IF r.raised THEN "raised" ELSE "returned"
                /\ video_frames' = r.frames
                /\ UNCHANGED log
    /\ UNCHANGED <<frame_call, docs, modality, di, pc, tmpdirs, created, calls>>
    /\ UNCHANGED <<mergeVars, instVars>>

FramesNext == ConvertFrames

FramesSpec == FramesInit /\ [][FramesNext]_vars

(***************************************************************************)
(* A sequence of extract calls on one VideoLoader, each on one Document    *)
(* whose video ffmpeg and librosa can decode, with every modality selected *)
(***************************************************************************)
\* the arguments __init__ is given
CtorArgs ==
    {[ffmpeg_video_args |-> v, ffmpeg_audio_args |-> a,
      ffmpeg_subtitle_args |-> EmptyDict, librosa_load_args |-> EmptyDict] :
        v \in {EmptyDict,
               "vf" :> Fps(<<"2">>),
               "vf" :> Fps(<<"0", ".", "5">>),
               "vf" :> <<"n", "u", "l", "l">>},
        a \in {EmptyDict, "ac" :> 1}}

\* the parameters extract is given
Parameters ==
    {EmptyDict,
     "ffmpeg_video_args" :> ("vf" :> Fps(<<"2">>)),
     "ffmpeg_video_args" :> ("s" :> <<"2", "x", "2">>),
     "ffmpeg_audio_args" :> ("ar" :> 16000),
     "ffmpeg_subtitle_args" :> ("map" :> <<"0", ":", "s", ":", "1">>),
     "librosa_load_args" :> ("sr" :> 16000)}

\* mutant: update without deepcopy
CallArgsInPlace(self_args, override) ==
    [local |-> Update(self_args, override), self |-> Update(self_args, override)]

\* lines 118-119, 134-138, 151-152: local = deepcopy(self._args);
\* local.update(parameters.get(name, {})): the local dictionary, and the
\* dictionary of the instance after the two statements
CallArgs(self_args, override) ==
    [local |-> Update(self_args, override), self |-> self_args]

\* line 129: idx / self._frame_fps raises at the first frame when the
\* attribute is not set or is 0
TimestampError ==
    IF NumFrames = 0 THEN "returned"
    ELSE IF frame_fps = <<>> THEN "AttributeError"
    ELSE IF frame_fps[1] = 0 THEN "ZeroDivisionError"
    ELSE "returned"

CallInit ==
    /\ cues = <<>>
    /\ beg = InitialLocals.beg
    /\ is_last_cap_complete = InitialLocals.is_last_cap_complete
    /\ subtitles = InitialLocals.subtitles
    /\ prev_parts = InitialLocals.prev_parts
    /\ mpc = "idle"
    /\ result = <<>>
    /\ hist = <<Snapshot(InitialLocals, FALSE)>>
    /\ docs = <<>>
    /\ modality = Modalities
    /\ di = 1
    /\ pc = "idle"
    /\ log = <<>>
    /\ tmpdirs = {}
    /\ created = <<>>
    /\ calls = {}
    /\ \E a \in CtorArgs :
           /\ inst = Construct(a).args
           /\ frame_fps = Construct(a).frame_fps
           /\ inst0 = Construct(a).args
    /\ call_hist = <<>>
    /\ NoFrameCall

\* lines 90-163 for one Document: the image block, then, unless the
\* timestamp raised, the audio and the text block
ExtractCall ==
    /\ Len(call_hist) < MaxCalls
    /\ \E parameters \in Parameters :
         LET video    == CallArgs(inst.ffmpeg_video_args, Get(parameters, "ffmpeg_video_args"))
             audio    == CallArgs(inst.ffmpeg_audio_args, Get(parameters, "ffmpeg_audio_args"))
             librosa  == CallArgs(inst.librosa_load_args, Get(parameters, "librosa_load_args"))
             subtitle == CallArgs(inst.ffmpeg_subtitle_args,
                                  Get(parameters, "ffmpeg_subtitle_args"))
         IN  IF TimestampError # "returned"
             THEN /\ inst' = [inst EXCEPT !.ffmpeg_video_args = video.self]
                  /\ call_hist' = Append(call_hist,
                         [parameters |-> parameters,
                          status     |-> TimestampError,
                          used       |-> [ffmpeg_video_args    |-> video.local,
                                          ffmpeg_audio_args    |-> EmptyDict,
                                          librosa_load_args    |-> EmptyDict,
                                          ffmpeg_subtitle_args |-> EmptyDict],
                          stamps     |-> <<>>])
             ELSE /\ inst' = [ffmpeg_video_args    |-> video.self,
                              ffmpeg_audio_args    |-> audio.self,
                              librosa_load_args    |-> librosa.self,
                              ffmpeg_subtitle_args |-> subtitle.self]
                  /\ call_hist' = Append(call_hist,
                         [parameters |-> parameters,
                          status     |-> "returned",
                          used       |-> [ffmpeg_video_args    |-> video.local,
                                          ffmpeg_audio_args    |-> audio.local,
                                          librosa_load_args    |-> librosa.local,
                                          ffmpeg_subtitle_args |-> subtitle.local],
                          stamps     |-> [i \in 1..NumFrames |-> Timestamp(i - 1)]])
    /\ UNCHANGED <<frame_fps, inst0>>
    /\ UNCHANGED <<mergeVars, extractVars, frameVars>>

CallNext == ExtractCall

CallSpec == CallInit /\ [][CallNext]_vars

(***************************************************************************)
(* Properties of the caption merge                                         *)
(***************************************************************************)
\* the locals before and after the k-th caption
Before(k) == hist[k]

After(k) == hist[k + 1]

LastOf(s) == s[Len(s)]

RawLines(caption) == Split(caption.text, NL)

\* the raw text ends with a whitespace-only line after a line break
TrailingBlankLine(caption) ==
    Len(RawLines(caption)) > 1 /\ ~NonBlank(LastOf(RawLines(caption)))

\* A ends with a whitespace-only line, B repeats A's last visible line as its
\* first line, adds further lines and is complete
SplitPair(A, B) ==
    /\ TrailingBlankLine(A)
    /\ CurParts(A) # <<>>
    /\ Len(CurParts(B)) > 1
    /\ CurParts(B)[1] = LastOf(CurParts(A))
    /\ IsCurComplete(B)

\* C1 as stated: a split pair whose first caption is incomplete gives exactly
\* one entry, from A's start to B's end, whose text has lost the duplicated
\* line of B (B's remaining lines alone, or A's lines followed by them).
C1_SplitPairDropsDuplicate ==
    \A k \in 1..(Len(cues) - 1) :
        LET A == cues[k]
            B == cues[k + 1]
        IN  (SplitPair(A, B) /\ ~IsCurComplete(A)) =>
                /\ After(k).n = Before(k).n
                /\ After(k + 1).n = Before(k).n + 1
                /\ subtitles[After(k + 1).n][1] = A.start_in_seconds
                /\ subtitles[After(k + 1).n][2] = B.end_in_seconds
                /\ subtitles[After(k + 1).n][3] \in
                       {Join(Tail(CurParts(B)), <<" ">>),
                        Join(CurParts(A) \o Tail(CurParts(B)), <<" ">>)}

\* the case of C1 the code covers: A is incomplete, is not skipped and opens
\* a fresh entry
FreshSplitPair(k) ==
    /\ SplitPair(cues[k], cues[k + 1])
    /\ ~IsCurComplete(cues[k])
    /\ ~After(k).skipped
    /\ Before(k).is_last_cap_complete

\* C1 amended: a split pair whose first caption A is incomplete, is not
\* skipped and opens a fresh entry gives exactly one entry, from A's start to
\* B's end, whose text is all the non-empty lines of B joined by single
\* spaces, the duplicated line included.
C1_SplitPairKeepsDuplicate ==
    \A k \in 1..(Len(cues) - 1) :
        FreshSplitPair(k) =>
            /\ After(k).n = Before(k).n
            /\ After(k + 1).n = Before(k).n + 1
            /\ subtitles[After(k + 1).n] =
                   <<cues[k].start_in_seconds, cues[k + 1].end_in_seconds,
                     Join(CurParts(cues[k + 1]), <<" ">>)>>

C1_Witness ==
    \E k \in 1..(Len(cues) - 1) :
        /\ FreshSplitPair(k)
        /\ Len(CurParts(cues[k])) > 1
        /\ cues[k].start_in_seconds < cues[k + 1].start_in_seconds

Emitting == {k \in 1..Len(cues) : ~After(k).skipped /\ IsCurComplete(cues[k])}

C4_EntriesOrdered ==
    /\ \A i, j \in 1..Len(subtitles) : i < j => subtitles[i][1] <= subtitles[j][1]
    /\ \A i \in 1..Len(subtitles) : subtitles[i][1] <= subtitles[i][2]

C4_Witness ==
    /\ Len(subtitles) >= 2
    /\ subtitles[1][1] < subtitles[2][1]
    /\ \E k \in 1..Len(cues) : ~IsCurComplete(cues[k]) /\ ~After(k).skipped
    /\ subtitles[2][1] < cues[Len(cues)].start_in_seconds

\* the entries fed back as single-line captions
AsCaptions(entries) ==
    [i \in 1..Len(entries) |->
        [start_in_seconds |-> entries[i][1], end_in_seconds |-> entries[i][2],
         text |-> entries[i][3]]]

\* C5 as stated: merging the merge's own output again gives the same entries.
C5_Idempotent == ProcessSubtitles(AsCaptions(subtitles)) = subtitles

NoAdjacentRepeat(entries) ==
    \A i \in 1..(Len(entries) - 1) :
        entries[i][3] = <<>> \/ entries[i + 1][3] # entries[i][3]

\* C5 amended: when no two consecutive entries of the output have the same
\* non-empty text, merging the output again gives the same entries.
C5_IdempotentWithoutRepeats ==
    NoAdjacentRepeat(subtitles) => ProcessSubtitles(AsCaptions(subtitles)) = subtitles

C5_Witness ==
    /\ Len(subtitles) = MaxCues
    /\ NoAdjacentRepeat(subtitles)
    /\ \E i \in 1..Len(subtitles) : Len(subtitles[i][3]) > 1
    /\ \E i \in 1..Len(subtitles) : subtitles[i][3] = <<>>

\* one raw line, with visible text
SingleLine(caption) == Len(RawLines(caption)) = 1 /\ NonBlank(caption.text)

\* caption k opens a run of single-line captions with identical text
RunStart(k) ==
    /\ k < Len(cues)
    /\ SingleLine(cues[k])
    /\ cues[k + 1].text = cues[k].text
    /\ (k = 1 \/ cues[k - 1].text # cues[k].text)

\* the captions of the run that caption k opens, after k
RunRest(k) ==
    {j \in (k + 1)..Len(cues) : \A m \in k..j : cues[m].text = cues[k].text}

\* C6 as stated: of a run of identical single-line captions only the first
\* appends an entry, with its own start, end and text.
C6_RunGivesFirstCue ==
    \A k \in 1..Len(cues) :
        RunStart(k) =>
            /\ After(k).n = Before(k).n + 1
            /\ subtitles[After(k).n] =
                   <<cues[k].start_in_seconds, cues[k].end_in_seconds, cues[k].text>>
            /\ \A j \in RunRest(k) : After(j).n = After(k).n

\* C6 amended: of a run of identical single-line captions whose first
\* caption is not itself skipped, only the first appends an
\* entry; the entry has the first caption's end and text, and the first
\* caption's start when the caption before the run was complete (or there is
\* none), the start of the incomplete run in progress otherwise.
C6_RunGivesFirstCueUnlessPending ==
    \A k \in 1..Len(cues) :
        (RunStart(k) /\ ~After(k).skipped) =>
            /\ After(k).n = Before(k).n + 1
            /\ subtitles[After(k).n] =
                   <<IF Before(k).is_last_cap_complete
                     THEN cues[k].start_in_seconds ELSE Before(k).beg,
                     cues[k].end_in_seconds, cues[k].text>>
            /\ \A j \in RunRest(k) : After(j).n = After(k).n /\ After(j).skipped

C6_Witness ==
    \E k \in 1..Len(cues) :
        /\ RunStart(k)
        /\ ~After(k).skipped
        /\ ~Before(k).is_last_cap_complete
        /\ Before(k).beg < cues[k].start_in_seconds
        /\ RunRest(k) # {}

(***************************************************************************)
(* Properties of extract                                                   *)
(***************************************************************************)
Ended == pc \in {"done", "raised"}

\* Document j has an empty uri
NoSource(j) == docs[j].src.uri = ""

NoFetchFailure == \A j \in 1..Len(docs) : docs[j].src.fetch = "ok"

\* C3 as stated: whatever fails in ffmpeg, reshape or librosa, extract does
\* not raise, and when it has returned every enabled modality of every
\* Document with a uri has been attempted.
C3_FailureIsolation ==
    NoFetchFailure =>
        /\ pc # "raised"
        /\ pc = "done" =>
               \A j \in 1..Len(docs) : \A m \in modality :
                   ~NoSource(j) => <<j, m>> \in calls

\* the chunks a Document of this source has when extract, called on the
\* Document alone, has returned or raised
AloneChunks(src) ==
    LET image == IF Enabled("image") THEN FrameChunks(src) ELSE <<>>
        audio == IF Enabled("audio") /\ src.audio = "ok" THEN <<AudioChunk(src)>> ELSE <<>>
        text  == IF Enabled("text") /\ ~(Enabled("audio") /\ src.audio # "ok")
                 THEN TextChunks(src) ELSE <<>>
    IN  IF \/ src.uri = ""
           \/ src.uri = "data" /\ src.fetch # "ok"
           \/ Enabled("image") /\ src.frames = "ValueError"
        THEN <<>>
        ELSE image \o audio \o text

\* C7 as stated (for batches whose data URIs can all be fetched): the
\* Documents stay as given and in order, are processed one at a time in
\* order, and when extract has ended each has the chunks it has when
\* extracted alone.
C7_BatchIndependence ==
    NoFetchFailure =>
    /\ DOMAIN docs = DOMAIN created
    /\ \A j \in 1..Len(docs) : docs[j].id = j
    /\ tmpdirs \subseteq {di}
    /\ \A j \in 1..Len(docs) :
           j > di => docs[j].chunks = <<>> /\ \A m \in Modalities : <<j, m>> \notin calls
    /\ Ended => \A j \in 1..Len(docs) : docs[j].chunks = AloneChunks(docs[j].src)

NoUriErrors(j) ==
    Cardinality({k \in 1..Len(log) :
                    /\ log[k].level = "error"
                    /\ log[k].msg = "No uri passed for the Document"
                    /\ log[k].doc_id = <<docs[j].id>>})

Received(j) ==
    \E k \in 1..Len(log) : log[k].msg = "received" /\ log[k].doc_id = <<docs[j].id>>

\* C8: a Document with an empty uri never has a chunk, a temporary directory
\* or a converter call, never makes extract raise, has exactly one error log
\* entry once the loop has passed it, and the loop goes on to the Documents
\* after it.
C8_NoUriSkipped ==
    \A j \in 1..Len(docs) :
        NoSource(j) =>
            /\ docs[j].chunks = <<>>
            /\ created[j] = 0
            /\ j \notin tmpdirs
            /\ \A m \in Modalities : <<j, m>> \notin calls
            /\ ~(pc = "raised" /\ di = j)
            /\ NoUriErrors(j) = IF j < di THEN 1 ELSE 0
            /\ (j < di /\ j < Len(docs)) => (Received(j + 1) \/ (pc = "loop" /\ di = j + 1))
            /\ pc = "done" => \A k \in (j + 1)..Len(docs) : Received(k)

C8_Witness ==
    /\ pc = "done"
    /\ Len(docs) = MaxDocs
    /\ NoSource(1)
    /\ NoUriErrors(1) = 1
    /\ docs[Len(docs)].chunks # <<>>

\* C9: every chunk of every Document has a modality of self._modality, and
\* no converter of another modality is ever called.
C9_OnlySelectedModalities ==
    /\ \A j \in 1..Len(docs) : \A k \in 1..Len(docs[j].chunks) :
           docs[j].chunks[k].modality \in modality
    /\ \A c \in calls : c[2] \in modality

C9_Witness ==
    /\ pc = "done"
    /\ modality = {"image", "text"}
    /\ \E j \in 1..Len(docs) :
           /\ docs[j].src.audio = "ok"
           /\ \E k \in 1..Len(docs[j].chunks) : docs[j].chunks[k].modality = "image"
           /\ \E k \in 1..Len(docs[j].chunks) : docs[j].chunks[k].modality = "text"

Rank(m) == CASE m = "image" -> 1 [] m = "audio" -> 2 [] m = "text" -> 3

OfModality(chunks, m) == SelectSeq(chunks, LAMBDA c : c.modality = m)

\* C10: in every Document, at every point, the image chunks come before the
\* audio chunk and the audio chunk before the text chunks; the image chunks
\* are the frames in ffmpeg's order with locations 0, 1, 2, ..., there is at
\* most one audio chunk, and the text chunks are the merge's entries in
\* order with locations 0, 1, 2, ...
C10_ChunkOrder ==
    \A j \in 1..Len(docs) :
        LET chunks == docs[j].chunks
            image  == OfModality(chunks, "image")
            audio  == OfModality(chunks, "audio")
            text   == OfModality(chunks, "text")
            merged == ProcessSubtitles(SubtitleTrack)
        IN  /\ \A p, q \in 1..Len(chunks) :
                   p < q => Rank(chunks[p].modality) <= Rank(chunks[q].modality)
            /\ \A k \in 1..Len(image) :
                   image[k].location = k - 1 /\ image[k].content = <<"frame", k - 1>>
            /\ Len(audio) <= 1
            /\ Len(text) <= Len(merged)
            /\ \A k \in 1..Len(text) :
                   /\ text[k].location = k - 1
                   /\ <<text[k].tags.beg_in_seconds, text[k].tags.end_in_seconds,
                        text[k].content>> = merged[k]

C10_Witness ==
    \E j \in 1..Len(docs) :
        /\ Len(OfModality(docs[j].chunks, "image")) >= 2
        /\ Len(OfModality(docs[j].chunks, "audio")) = 1
        /\ Len(OfModality(docs[j].chunks, "text")) >= 2

(***************************************************************************)
(* More properties of the caption merge                                    *)
(***************************************************************************)
\* the raw text starts with exactly one space and a line break, or ends with
\* a line break and exactly one space
SingleSpaceMarker(caption) ==
    LET t == caption.text
    IN  \/ Len(t) >= 2 /\ t[1] = " " /\ t[2] = NL
        \/ Len(t) >= 2 /\ t[Len(t) - 1] = NL /\ t[Len(t)] = " "

\* the raw text starts with a whitespace-only line and a line break, or ends
\* with a line break and a whitespace-only line
WhitespaceMarker(caption) ==
    /\ Len(RawLines(caption)) > 1
    /\ \/ ~NonBlank(RawLines(caption)[1])
       \/ ~NonBlank(LastOf(RawLines(caption)))

PendingRun(k) ==
    {r \in 1..(k - 1) :
        /\ ~After(r).skipped
        /\ \A m \in r..(k - 1) : After(m).skipped \/ ~IsCurComplete(cues[m])}

\* C16: the start of every entry is the start of the first caption of the
\* run of incomplete captions before the caption that appended it, or that
\* caption's own start when there is no such run; beg does not change while
\* a run is in progress.
C16_StartOfRun ==
    \A k \in 1..Len(cues) :
        /\ k \in Emitting =>
               subtitles[After(k).n][1] =
                   IF PendingRun(k) = {} THEN cues[k].start_in_seconds
                   ELSE cues[Min(PendingRun(k))].start_in_seconds
        /\ (~After(k).skipped /\ PendingRun(k) # {}) =>
               After(k).beg = cues[Min(PendingRun(k))].start_in_seconds

C16_Witness ==
    \E k \in Emitting :
        /\ Cardinality(PendingRun(k)) >= 2
        /\ cues[Min(PendingRun(k))].start_in_seconds < cues[Max(PendingRun(k))].start_in_seconds

\* the caption has one non-empty line, which is among prev_parts
IsRepeat(k) ==
    /\ Len(CurParts(cues[k])) = 1
    /\ In(CurParts(cues[k])[1], Before(k).prev_parts)

\* C17: a caption with exactly one non-empty line that is among prev_parts
\* changes nothing: no entry, and beg, is_last_cap_complete and prev_parts
\* keep their values.
C17_SkippedChangesNothing ==
    \A k \in 1..Len(cues) :
        IsRepeat(k) =>
            /\ After(k).n = Before(k).n
            /\ After(k).beg = Before(k).beg
            /\ After(k).is_last_cap_complete = Before(k).is_last_cap_complete
            /\ After(k).prev_parts = Before(k).prev_parts
            /\ k = Len(cues) => Locals.prev_parts = Before(k).prev_parts

C17_Witness ==
    \E k \in 1..Len(cues) :
        /\ IsRepeat(k)
        /\ Len(Before(k).prev_parts) = 2
        /\ ~Before(k).is_last_cap_complete
        /\ ~IsCurComplete(cues[k])
        /\ k < Len(cues)

\* the last caption before k that was not skipped (0: none)
PrevCue(k) == Max({0} \cup {m \in 1..(k - 1) : ~After(m).skipped})

PrevLines(k) == IF PrevCue(k) = 0 THEN <<>> ELSE CurParts(cues[PrevCue(k)])

PrevComplete(k) == PrevCue(k) = 0 \/ IsCurComplete(cues[PrevCue(k)])

\* C18: the text of an entry appended by a caption of several non-empty
\* lines is the lines without the first when the first is a line of the last
\* caption not skipped before it and that caption was complete; otherwise it
\* is all the lines, joined by single spaces.
C18_TrimOnlyAfterComplete ==
    \A k \in Emitting :
        Len(CurParts(cues[k])) > 1 =>
            subtitles[After(k).n][3] =
                IF In(CurParts(cues[k])[1], PrevLines(k)) /\ PrevComplete(k)
                THEN Join(Tail(CurParts(cues[k])), <<" ">>)
                ELSE Join(CurParts(cues[k]), <<" ">>)

C18_Witness ==
    /\ \E k \in Emitting :
           /\ Len(CurParts(cues[k])) > 1
           /\ In(CurParts(cues[k])[1], PrevLines(k))
           /\ PrevComplete(k)
           /\ PrevCue(k) # 0
    /\ \E k \in Emitting :
           /\ Len(CurParts(cues[k])) > 1
           /\ In(CurParts(cues[k])[1], PrevLines(k))
           /\ ~PrevComplete(k)

\* cur_parts[1:]
Rest(parts) == IF parts = <<>> THEN <<>> ELSE Tail(parts)

\* C20: the entries are, in order, one for each caption that is complete and
\* not skipped; an entry ends at its caption's end and its text is that
\* caption's non-empty lines, all or all but the first, joined by spaces.
C20_EntryPerEmittingCue ==
    /\ Len(subtitles) = Cardinality(Emitting)
    /\ Len(subtitles) <= Len(cues)
    /\ \A k \in Emitting :
           /\ After(k).n = Cardinality({m \in Emitting : m <= k})
           /\ subtitles[After(k).n][2] = cues[k].end_in_seconds
           /\ subtitles[After(k).n][3] \in
                  {Join(CurParts(cues[k]), <<" ">>),
                   Join(Rest(CurParts(cues[k])), <<" ">>)}

C20_Witness ==
    /\ Len(cues) = MaxCues
    /\ Len(subtitles) = 1
    /\ 1 \notin Emitting
    /\ ~After(1).skipped
    /\ CurParts(cues[1]) # <<>>
    /\ \E k \in Emitting : ~In(CurParts(cues[1])[1], CurParts(cues[k]))

(***************************************************************************)
(* More properties of extract                                              *)
(***************************************************************************)
\* the with block of item j has been entered
Entered(j) == j < di \/ (j = di /\ pc \in {"fetch", "image", "audio", "text", "raised"})

\* C14: one temporary directory is made for each item with a source when its
\* processing starts, it exists only while that item is processed, and none
\* is left when the item is left by the end of the block, by the continue
\* after an audio failure or by an exception, nor when extract has returned
\* or raised.
C14_TmpDirScoped ==
    /\ tmpdirs = IF pc \in {"fetch", "image", "audio", "text"} THEN {di} ELSE {}
    /\ \A j \in 1..Len(docs) :
           created[j] = IF Entered(j) /\ ~NoSource(j) THEN 1 ELSE 0

C14_Witness ==
    /\ pc = "raised"
    /\ di = 2
    /\ docs[2].src.frames = "ValueError"
    /\ created = <<1, 1>>
    /\ "audio" \in modality
    /\ docs[1].src.audio = "ffmpeg.Error"
    /\ tmpdirs = {}
\* the ffmpeg run of modality m fails on the source
TranscodingFails(src, m) ==
    \/ m = "image" /\ src.frames = "ffmpeg.Error"
    \/ m = "audio" /\ src.audio = "ffmpeg.Error"
    \/ m = "text" /\ src.subs = "ffmpeg.Error"

\* the message written for a failure of modality m starts with its phrase
HasPhrase(msg, m) ==
    \/ m = "image" /\ msg = "Frame extraction failed"
    \/ m = "audio" /\ msg = "Audio extraction failed with ffmpeg"
    \/ m = "text" /\ msg = "Subtitle extraction failed with ffmpeg"

\* C11: when extract has returned, for every item with a source and every
\* selected modality whose ffmpeg run fails on it, the log holds an error
\* entry with that modality's phrase and the item's uri.
C11_FailureLogged ==
    pc = "done" =>
        \A j \in 1..Len(docs) : \A m \in modality :
            (~NoSource(j) /\ TranscodingFails(docs[j].src, m)) =>
                \E i \in 1..Len(log) :
                    /\ log[i].level = "error"
                    /\ HasPhrase(log[i].msg, m)
                    /\ log[i].uri = <<docs[j].src.uri>>

RECURSIVE Concat(_)
\* the members of a sequence of sequences, one after the other
Concat(ss) == IF ss = <<>> THEN <<>> ELSE ss[1] \o Concat(Tail(ss))

\* the bytes of the frames, frame by frame, row by row, pixel by pixel
FrameBytes(frames) ==
    Concat([n \in 1..Len(frames) |->
               Concat([r \in 1..Len(frames[n]) |-> Concat(frames[n][r])])])

\* C12: when ffmpeg wrote exactly N * h * w * 3 bytes the decoder returns N
\* frames of h rows of w pixels of 3 bytes that hold the bytes in the order
\* of the buffer; when the size is not a multiple of h * w * 3 it raises and
\* gives no frame.
C12_DecoderShape ==
    (fpc \in {"returned", "raised"} /\ frame_call.ok) =>
        LET h == frame_call.h
            w == frame_call.w
            out == frame_call.out
        IN  IF \E N \in 0..Len(out) : Len(out) = N * h * w * 3
            THEN /\ fpc = "returned"
                 /\ Len(video_frames) * h * w * 3 = Len(out)
                 /\ \A n \in 1..Len(video_frames) :
                        /\ Len(video_frames[n]) = h
                        /\ \A r \in 1..h :
                               /\ Len(video_frames[n][r]) = w
                               /\ \A c \in 1..w : Len(video_frames[n][r][c]) = 3
                 /\ FrameBytes(video_frames) = out
            ELSE /\ fpc = "raised"
                 /\ video_frames = <<>>

C12_Witness ==
    /\ fpc = "returned"
    /\ frame_call.ok
    /\ frame_call.w < frame_call.h
    /\ Len(video_frames) = 2
(***************************************************************************)
(* Properties of the arguments of extract calls                            *)
(***************************************************************************)
\* where vf holds "fps=" and a digit
RatePos(vf) ==
    {p \in 1..(Len(vf) - 4) :
        /\ vf[p] = "f" /\ vf[p + 1] = "p" /\ vf[p + 2] = "s" /\ vf[p + 3] = "="
        /\ vf[p + 4] \in Digits}

\* the end of the run of digits that starts at b
DigitsEnd(vf, b) == Max({q \in b..Len(vf) : \A r \in b..q : vf[r] \in Digits})

\* the frame rate a filter expression "...fps=<decimal>..." asks for, as the
\* fraction num / den
Rate(vf) ==
    LET b  == Max(RatePos(vf)) + 4
        e  == DigitsEnd(vf, b)
        fr == IF e + 2 <= Len(vf) /\ vf[e + 1] = "." /\ vf[e + 2] \in Digits
              THEN SubSeq(vf, e + 2, DigitsEnd(vf, e + 2))
              ELSE <<>>
    IN  [num |-> ToInt(SubSeq(vf, b, e) \o fr), den |-> 10 ^ Len(fr)]

\* C13: in every call, when the vf of the arguments in effect (those of the
\* constructor with the call's override applied) names a frame rate, the
\* call does not raise and the timestamp of the frame with index idx is
\* idx divided by that rate.
C13_TimestampByConfiguredFps ==
    \A i \in 1..Len(call_hist) :
        LET c  == call_hist[i]
            vf == c.used.ffmpeg_video_args["vf"]
        IN  RatePos(vf) # {} =>
                /\ c.status = "returned"
                /\ Len(c.stamps) = NumFrames
                /\ \A n \in 1..Len(c.stamps) :
                       /\ c.stamps[n][2] # 0
                       /\ c.stamps[n][1] * Rate(vf).num
                              = (n - 1) * Rate(vf).den * c.stamps[n][2]

ArgSets ==
    {"ffmpeg_video_args", "ffmpeg_audio_args", "ffmpeg_subtitle_args", "librosa_load_args"}

Override(parameters, name) ==
    IF name \in DOMAIN parameters THEN parameters[name] ELSE <<>>

ShallowMerge(d, o) ==
    [k \in DOMAIN d \cup DOMAIN o |-> IF k \in DOMAIN o THEN o[k] ELSE d[k]]

\* the argument sets a call has computed
Computed(c) == IF c.status = "returned" THEN ArgSets ELSE {"ffmpeg_video_args"}

\* C19: the arguments a call uses are those of the instance with the call's
\* override applied key by key, the override winning; the arguments of the
\* instance are after every call what they were after construction; two
\* calls without overrides use the same arguments and end the same way.
C19_OverridesDoNotPersist ==
    /\ inst = inst0
    /\ \A i \in 1..Len(call_hist) : \A name \in Computed(call_hist[i]) :
           call_hist[i].used[name] =
               ShallowMerge(inst0[name], Override(call_hist[i].parameters, name))
    /\ \A i, j \in 1..Len(call_hist) :
           (call_hist[i].parameters = <<>> /\ call_hist[j].parameters = <<>>) =>
               call_hist[i] = call_hist[j]

C19_Witness ==
    /\ Len(call_hist) = 2
    /\ "ffmpeg_video_args" \in DOMAIN call_hist[1].parameters
    /\ "vf" \in DOMAIN call_hist[1].parameters["ffmpeg_video_args"]
    /\ call_hist[1].used.ffmpeg_video_args["vf"] # inst0.ffmpeg_video_args["vf"]
    /\ call_hist[1].status = "returned"
    /\ call_hist[2].parameters = <<>>
    /\ call_hist[2].status = "returned"
    /\ call_hist[2].used = inst0

====
